---- MODULE Spec2Model ----
(***************************************************************************)
(* A model of the data-integrity assertion library:                        *)
(*   - vc-generator/index.js : generateTestData and its fixture cache,     *)
(*   - index.js              : checkDataIntegrityProofFormat and           *)
(*                             checkDataIntegrityProofVerifyErrors.        *)
(* JavaScript objects live on a heap (a sequence of objects indexed by     *)
(* address) so that aliasing, deep copies and mutation are observable.     *)
(***************************************************************************)
EXTENDS Integers, Sequences, FiniteSets, TLC

VARIABLES
    \* ---- vc-generator/index.js ----
    heap,       \* the JS heap: Seq of objects, an address is an index
    vcCache,    \* module-level Map: suiteName -> per-suite Map (or Absent)
    calls,      \* the generateTestData invocations and where each is suspended
    mapCount,   \* history: how many Maps _initCache() built for each suite
    clones,     \* history: every accessor.clone(id) that returned, in order
    \* ---- index.js ----
    fmt,        \* one vendor's scenario group of checkDataIntegrityProofFormat
    reg         \* the registration loop over the implemented vendors

vars == <<heap, vcCache, calls, mapCount, clones, fmt, reg>>

(***************************************************************************)
(* Bounds.                                                                 *)
(***************************************************************************)
MaxCalls == 2
MaxClones == 2
MaxProofs == 2
MaxVendors == 3

(***************************************************************************)
(* The heap.  A credential is an object with a primitive field "issuer"    *)
(* and a nested object "credentialSubject" (held by address) that has a    *)
(* primitive field "name".  An address names the statement that allocated  *)
(* the object, so that two executions that differ only in the order of     *)
(* unrelated allocations reach the same state.                             *)
(***************************************************************************)
Addr(site, s, n, m) == <<site, s, n, m, "top">>

Nested(a) == [a EXCEPT ![5] = "credentialSubject"]

Undefined == <<"undefined", "-", 0, 0, "-">>

VcObject(issuer, subject) ==
    [issuer |-> issuer, credentialSubject |-> subject, name |-> "-"]

SubjectObject(name) ==
    [issuer |-> "-", credentialSubject |-> Undefined, name |-> name]

\* the canonical template of validVc.js and a caller's own testVector
validVc == Addr("validVc", "-", 0, 0)
customVector == Addr("testVector", "-", 0, 0)
Templates == {validVc, customVector}

InitHeap ==
    (validVc :> VcObject("did:template:valid", Nested(validVc)))
    @@ (Nested(validVc) :> SubjectObject("Alice"))
    @@ (customVector :> VcObject("did:template:custom", Nested(customVector)))
    @@ (Nested(customVector) :> SubjectObject("Bob"))

\* the structural value of the object at address a (what deep-equal compares)
DeepVal(h, a) ==
    IF a = Undefined THEN <<"undefined", "undefined">>
    ELSE <<h[a].issuer, h[h[a].credentialSubject].name>>

\* the addresses the object graph rooted at a occupies
Graph(h, a) ==
    IF a = Undefined THEN {} ELSE {a, h[a].credentialSubject}

\* klona(x), the copy allocated at address new: the nested object is copied too
Klona(h, a, new) ==
    IF a = Undefined THEN [heap |-> h, addr |-> Undefined]
    ELSE [heap |-> (new :> [h[a] EXCEPT !.credentialSubject = Nested(new)])
                   @@ (Nested(new) :> h[h[a].credentialSubject])
                   @@ h,
          addr |-> new]

(***************************************************************************)
(* vc-generator/index.js                                                   *)
(***************************************************************************)
Suites == {"eddsa-2022", "ecdsa-rdfc-2019"}

\* generators.js is not part of the sources at hand: the registry is an
\* ordered list of named generators, the optional ones present on request
getGenerators(optionalTests) ==
    IF optionalTests THEN <<"issuedVc", "invalidProofType">>
    ELSE <<"issuedVc">>

GeneratorIds == {"issuedVc", "invalidProofType"}
EntryKeys == {"validVc"} \cup GeneratorIds

\* secret.js is not part of the sources at hand: a deterministic default key
getDefaultKey == "defaultKey"

Controller(key) ==
    CASE key = "suppliedKey" -> "did:key:supplied"
      [] key = "defaultKey" -> "did:key:default"
      [] OTHER -> "undefined"

Absent == [mapId |-> 0, entries |-> [k \in EntryKeys |-> Undefined]]

IdleCall ==
    [pc |-> "idle", suiteName |-> "-", keyArg |-> "-", key |-> "-",
     testVector |-> Undefined, optionalTests |-> FALSE,
     credential |-> Undefined, i |-> 0,
     keyCalls |-> 0, invoked |-> <<>>, stored |-> <<>>]

\* the arguments of a call: {suiteName, key, testVector, optionalTests}
AllArgs ==
    [suiteName : Suites, key : {"undefined", "suppliedKey"},
     testVector : Templates, optionalTests : BOOLEAN]

\* the calls of one suite with a key of the caller, this or that template
OneSuiteArgs ==
    [suiteName : {"eddsa-2022"}, key : {"suppliedKey"},
     testVector : Templates, optionalTests : {FALSE}]

\* the calls of one suite with every generator enabled
ImpureArgs ==
    [suiteName : {"eddsa-2022"}, key : {"suppliedKey"},
     testVector : Templates, optionalTests : {TRUE}]

\* if(!key)
NeedsDefaultKey_always(key) == TRUE

NeedsDefaultKey(key) == key = "undefined"

\* if(!vcCache.get(suiteName))
NeedsInit_always(cache, s) == TRUE

NeedsInit(cache, s) == cache[s] = Absent

\* _initCache(): new Map([['validVc', klona(validVc)]])
InitCache(h, s, id) ==
    LET k == Klona(h, validVc, Addr("_initCache", s, id, 0))
    IN [heap |-> k.heap,
        map |-> [mapId |-> id,
                 entries |-> [e \in EntryKeys |->
                                 IF e = "validVc" THEN k.addr ELSE Undefined]]]

\* const credential = klona(testVector)
CloneTemplate_alias(h, tv, c) == [heap |-> h, addr |-> tv]

CloneTemplate(h, tv, c) == Klona(h, tv, Addr("credential", "-", c, 0))

\* credential.issuer = key.controller
SetIssuer(h, a, key) == [h EXCEPT ![a].issuer = Controller(key)]

\* issueCloned (generators.js, not at hand): the artifact is a fresh object
\* built from a copy of the credential
IssueCloned(h, credential, c, i) ==
    Klona(h, credential, Addr("testData", "-", c, i))

\* what a rejected await leaves of the cache: the set() after it never runs
CacheOnReject_rollback(cache, s) == [cache EXCEPT ![s] = Absent]

CacheOnReject(cache, s) == cache

\* clone(key) { return klona(vcCache.get(suiteName).get(key)); }
CloneOut_alias(h, a, n) == [heap |-> h, addr |-> a]

CloneOut(h, a, n) == Klona(h, a, Addr("clone", "-", n, 0))

\* one turn of the for loop up to its await: the generator of position i is
\* called with the shared credential; it throws at once or returns a promise
Invoke(c, rec, h, cache, i, threw) ==
    LET id == getGenerators(rec.optionalTests)[i]
    IN [rec EXCEPT
          !.i = i,
          !.invoked = Append(@, [id |-> id,
                                 issuer |-> h[rec.credential].issuer,
                                 cached |-> cache[rec.suiteName].entries[id]
                                            # Undefined]),
          !.pc = IF threw THEN "rejected" ELSE "awaitGen"]

\* lines 51-58: everything between the key being known and the first await
\* of the loop runs without suspension
Body(c, rec) ==
    LET s == rec.suiteName
        init == NeedsInit(vcCache, s)
        ic == IF init THEN InitCache(heap, s, mapCount[s] + 1)
              ELSE [heap |-> heap, map |-> vcCache[s]]
        cache2 == [vcCache EXCEPT ![s] = ic.map]
        k == CloneTemplate(ic.heap, rec.testVector, c)
        h2 == SetIssuer(k.heap, k.addr, rec.key)
        rec2 == [rec EXCEPT !.credential = k.addr]
    IN /\ vcCache' = cache2
       /\ mapCount' = [mapCount EXCEPT ![s] = IF init THEN @ + 1 ELSE @]
       /\ heap' = h2
       /\ \E threw \in BOOLEAN :
            calls' = [calls EXCEPT ![c] = Invoke(c, rec2, h2, cache2, 1, threw)]

\* generateTestData({suiteName, key, optionalTests, testVector})
GenerateTestData(c, Args) ==
    /\ calls[c].pc = "idle"
    /\ c > 1 => calls[c - 1].pc # "idle"
    /\ \E a \in Args :
         LET rec == [IdleCall EXCEPT !.suiteName = a.suiteName,
                                     !.keyArg = a.key, !.key = a.key,
                                     !.testVector = a.testVector,
                                     !.optionalTests = a.optionalTests]
         IN IF NeedsDefaultKey(a.key)
            THEN /\ calls' = [calls EXCEPT ![c] =
                                 [rec EXCEPT !.pc = "awaitKey",
                                             !.keyCalls = @ + 1]]
                 /\ UNCHANGED <<heap, vcCache, mapCount>>
            ELSE Body(c, rec)
    /\ UNCHANGED <<clones, fmt, reg>>

\* key = await getDefaultKey() resumes
KeyResolves(c) ==
    /\ calls[c].pc = "awaitKey"
    /\ Body(c, [calls[c] EXCEPT !.key = getDefaultKey])
    /\ UNCHANGED <<clones, fmt, reg>>

\* const testData = await issueCloned(...) resumes with a value: the value
\* is stored, and the loop goes on to the next generator or the call returns
GeneratorResolves(c) ==
    /\ calls[c].pc = "awaitGen"
    /\ LET rec == calls[c]
           s == rec.suiteName
           gens == getGenerators(rec.optionalTests)
           id == gens[rec.i]
           k == IssueCloned(heap, rec.credential, c, rec.i)
           cache2 == [vcCache EXCEPT ![s].entries[id] = k.addr]
           rec2 == [rec EXCEPT !.stored = Append(@, id)]
       IN /\ heap' = k.heap
          /\ vcCache' = cache2
          /\ IF rec.i < Len(gens)
             THEN \E threw \in BOOLEAN :
                    calls' = [calls EXCEPT ![c] =
                       Invoke(c, rec2, k.heap, cache2, rec.i + 1, threw)]
             ELSE calls' = [calls EXCEPT ![c] = [rec2 EXCEPT !.pc = "done"]]
    /\ UNCHANGED <<mapCount, clones, fmt, reg>>

\* the awaited promise rejects: the exception leaves generateTestData
GeneratorRejects(c) ==
    /\ calls[c].pc = "awaitGen"
    /\ calls' = [calls EXCEPT ![c].pc = "rejected"]
    /\ vcCache' = CacheOnReject(vcCache, calls[c].suiteName)
    /\ UNCHANGED <<heap, mapCount, clones, fmt, reg>>

\* accessor.clone(id) of a call that returned
Clone(c, id) ==
    /\ calls[c].pc = "done"
    /\ Len(clones) < MaxClones
    /\ LET s == calls[c].suiteName
           a == vcCache[s].entries[id]
           k == CloneOut(heap, a, Len(clones) + 1)
       IN /\ heap' = k.heap
          /\ clones' = Append(clones,
                         [suite |-> s, id |-> id, src |-> a, addr |-> k.addr,
                          srcVal |-> DeepVal(heap, a),
                          val |-> DeepVal(k.heap, k.addr)])
    /\ UNCHANGED <<vcCache, calls, mapCount, fmt, reg>>

\* a consumer mutates a clone it was given, once: a top-level field or a
\* field of the nested object
MutateClone(n, nested) ==
    /\ n \in 1..Len(clones)
    /\ clones[n].addr # Undefined
    /\ LET a == clones[n].addr
       IN /\ heap[heap[a].credentialSubject].name # "tampered"
          /\ heap[a].issuer # "tampered"
          /\ IF nested
             THEN heap' = [heap EXCEPT
                             ![heap[a].credentialSubject].name = "tampered"]
             ELSE heap' = [heap EXCEPT ![a].issuer = "tampered"]
    /\ UNCHANGED <<vcCache, calls, mapCount, clones, fmt, reg>>

\* a generator that is not pure: it writes, once, to the credential it was
\* handed (a top-level field or a field of the nested object)
GeneratorMutates(c, nested) ==
    /\ calls[c].pc = "awaitGen"
    /\ LET a == calls[c].credential
       IN /\ heap[heap[a].credentialSubject].name # "generated"
          /\ heap[a].issuer # "did:generated"
          /\ IF nested
             THEN heap' = [heap EXCEPT
                             ![heap[a].credentialSubject].name = "generated"]
             ELSE heap' = [heap EXCEPT ![a].issuer = "did:generated"]
    /\ UNCHANGED <<vcCache, calls, mapCount, clones, fmt, reg>>

(***************************************************************************)
(* index.js: checkDataIntegrityProofFormat, one vendor's scenario group.   *)
(* A JavaScript value is a record [t, v]: its type and its text; a string  *)
(* is a TLA+ string, read character by character with SubSeq.              *)
(***************************************************************************)
Range(q) == {q[n] : n \in 1..Len(q)}

Str(v) == [t |-> "string", v |-> v]
Num(v) == [t |-> "number", v |-> v]
Missing == [t |-> "undefined", v |-> ""]

\* if(x): the truthiness of a value
Truthy(x) ==
    \/ x.t = "string" /\ x.v # ""
    \/ x.t = "number" /\ x.v # "0"

CharAt(v, n) == SubSeq(v, n, n)

Digits == {"0", "1", "2", "3", "4", "5", "6", "7", "8", "9"}
LowerCase ==
    {"a", "b", "c", "d", "e", "f", "g", "h", "i", "j", "k", "l", "m",
     "n", "o", "p", "q", "r", "s", "t", "u", "v", "w", "x", "y", "z"}
UpperCase ==
    {"A", "B", "C", "D", "E", "F", "G", "H", "I", "J", "K", "L", "M",
     "N", "O", "P", "Q", "R", "S", "T", "U", "V", "W", "X", "Y", "Z"}

AllIn(v, S) == \A n \in 1..Len(v) : CharAt(v, n) \in S

\* new URL(x): x parses as an absolute URL when it starts with a scheme,
\* and an http(s) URL needs a host
SchemeEnd(v) ==
    IF \E n \in 1..Len(v) : CharAt(v, n) = ":"
    THEN CHOOSE n \in 1..Len(v) :
            /\ CharAt(v, n) = ":"
            /\ \A m \in 1..(n - 1) : CharAt(v, m) # ":"
    ELSE 0

IsURL(v) ==
    LET e == SchemeEnd(v)
        scheme == SubSeq(v, 1, e - 1)
        rest == SubSeq(v, e + 1, Len(v))
    IN /\ e >= 2
       /\ CharAt(v, 1) \in LowerCase \cup UpperCase
       /\ AllIn(scheme, LowerCase \cup UpperCase \cup Digits \cup {"+", "-", "."})
       /\ scheme \in {"http", "https"} =>
            \E n \in 1..Len(rest) : CharAt(rest, n) # "/"

\* the dateRegex of the "proof.created" check, flag 'i'
TwoDigits(v, n, Allowed) == <<CharAt(v, n), CharAt(v, n + 1)>> \in Allowed

Months == ({"0"} \X (Digits \ {"0"})) \cup ({"1"} \X {"0", "1", "2"})
Days ==
    ({"0"} \X (Digits \ {"0"})) \cup ({"1", "2"} \X Digits)
      \cup ({"3"} \X {"0", "1"})
Hours == ({"0", "1"} \X Digits) \cup ({"2"} \X {"0", "1", "2", "3"})
Minutes == {"0", "1", "2", "3", "4", "5"} \X Digits
Seconds == Minutes \cup {<<"6", "0">>}

IsFraction(v) ==
    \/ v = ""
    \/ /\ Len(v) >= 2
       /\ CharAt(v, 1) = "."
       /\ AllIn(SubSeq(v, 2, Len(v)), Digits)

IsZone(v) ==
    \/ v \in {"Z", "z"}
    \/ /\ Len(v) = 6
       /\ CharAt(v, 1) \in {"+", "-"}
       /\ TwoDigits(v, 2, Hours)
       /\ CharAt(v, 4) = ":"
       /\ TwoDigits(v, 5, Minutes)

MatchesDateRegex(v) ==
    /\ Len(v) >= 20
    /\ AllIn(SubSeq(v, 1, 4), Digits)
    /\ CharAt(v, 5) = "-"
    /\ TwoDigits(v, 6, Months)
    /\ CharAt(v, 8) = "-"
    /\ TwoDigits(v, 9, Days)
    /\ CharAt(v, 11) \in {"T", "t"}
    /\ TwoDigits(v, 12, Hours)
    /\ CharAt(v, 14) = ":"
    /\ TwoDigits(v, 15, Minutes)
    /\ CharAt(v, 17) = ":"
    /\ TwoDigits(v, 18, Seconds)
    /\ \E z \in {1, 6} :
         /\ Len(v) - z >= 19
         /\ IsZone(SubSeq(v, Len(v) - z + 1, Len(v)))
         /\ IsFraction(SubSeq(v, 20, Len(v) - z))

\* helpers.js is not part of the sources at hand: what follows the multibase
\* prefix decodes as base58-btc
Base58Alphabet ==
    (Digits \ {"0"}) \cup (UpperCase \ {"I", "O"}) \cup (LowerCase \ {"l"})

shouldBeBs58(v) == AllIn(SubSeq(v, 2, Len(v)), Base58Alphabet)

\* value.startsWith('z')
StartsWithZ(v) == Len(v) >= 1 /\ CharAt(v, 1) = "z"

(***************************************************************************)
(* Proofs.  A proof is a record of the fields the checks read; "exists" is *)
(* FALSE for the undefined that [data.proof] holds when there is no proof. *)
(***************************************************************************)
ValidProof ==
    [exists |-> TRUE,
     id |-> Missing,
     type |-> Str("DataIntegrityProof"),
     cryptosuite |-> Str("eddsa-2022"),
     created |-> Str("2023-05-01T12:00:00Z"),
     verificationMethod |-> Str("https://example.com/key/1"),
     proofPurpose |-> Str("assertionMethod"),
     proofValue |-> Str("zABC123"),
     domain |-> Missing,
     challenge |-> Missing,
     previousProof |-> Missing]

NoProof ==
    [exists |-> FALSE, id |-> Missing, type |-> Missing,
     cryptosuite |-> Missing, created |-> Missing,
     verificationMethod |-> Missing, proofPurpose |-> Missing,
     proofValue |-> Missing, domain |-> Missing, challenge |-> Missing,
     previousProof |-> Missing]

\* the proofs a vendor may answer with: the valid proof and its variations
SampleProofs ==
    {ValidProof}
    \cup {[ValidProof EXCEPT !.id = x] :
            x \in {Str("urn:uuid:1"), Str("not a url")}}
    \cup {[ValidProof EXCEPT !.type = x] :
            x \in {Str("Ed25519Signature2020"), Num("5"), Missing}}
    \cup {[ValidProof EXCEPT !.cryptosuite = x] : x \in {Num("5"), Missing}}
    \cup {[ValidProof EXCEPT !.created = x] :
            x \in {Str("2023-05-01 12:00:00Z"), Str("23-05-01T12:00:00Z"),
                   Str("2016-12-31t23:59:60.25+01:00"), Missing}}
    \cup {[ValidProof EXCEPT !.verificationMethod = x] :
            x \in {Str("did:key:z6Mk#k"), Str("https://"), Missing}}
    \cup {[ValidProof EXCEPT !.proofPurpose = x] : x \in {Num("5"), Missing}}
    \cup {[ValidProof EXCEPT !.proofValue = x] :
            x \in {Str("QABC123"), Str("z0OIl"), Num("5"), Missing}}
    \cup {[ValidProof EXCEPT !.domain = x] :
            x \in {Str("example.com"), Num("5")}}
    \cup {[ValidProof EXCEPT !.challenge = x, !.domain = d] :
            x \in {Str("abc"), Str(""), Num("5"), Num("0")},
            d \in {Missing, Str("example.com")}}
    \cup {[ValidProof EXCEPT !.previousProof = x] :
            x \in {Str("urn:uuid:0"), Num("5")}}
    \cup {[ValidProof EXCEPT !.type = Str("Ed25519Signature2020"),
                             !.id = Str("urn:uuid:1")],
          [ValidProof EXCEPT !.type = Str("Ed25519Signature2020"),
                             !.challenge = Str("abc"),
                             !.domain = Str("example.com")]}

\* data.proof: absent, one proof object, or an array of proofs
SeqsUpTo(S, n) == UNION {[1..k -> S] : k \in 1..n}

SampleData ==
    {[kind |-> "undefined", value |-> <<>>]}
    \cup {[kind |-> "object", value |-> <<p>>] : p \in SampleProofs}
    \cup {[kind |-> "array", value |-> q] : q \in SeqsUpTo(SampleProofs, MaxProofs)}

\* proofs = Array.isArray(data.proof) ? data.proof : [data.proof]
ProofsOf(data) == IF data.kind = "undefined" THEN <<NoProof>> ELSE data.value

(***************************************************************************)
(* The checks.  Each gives "pass" or the reason of the assertion (or the   *)
(* TypeError) that ends the test.                                          *)
(***************************************************************************)
\* for(const proof of proofs) {...}: outcomes[n] is what the body does on
\* proofs[n]; the loop ends at the first proof whose body throws
ForEach(outcomes) ==
    IF \E n \in 1..Len(outcomes) : outcomes[n] # "pass"
    THEN outcomes[CHOOSE n \in 1..Len(outcomes) :
                    /\ outcomes[n] # "pass"
                    /\ \A m \in 1..(n - 1) : outcomes[m] = "pass"]
    ELSE "pass"

\* x.should.be.a('string', msg) after proof.should.have.property(name)
PropertyString(x, noProperty, notString) ==
    IF x.t = "undefined" THEN noProperty
    ELSE IF x.t # "string" THEN notString
    ELSE "pass"

\* should.exist(data.proof); (typeof data.proof).should.be.oneOf([...])
CheckProofExists(data) ==
    IF data = "undefined" THEN "Expected proof to be top-level"
    ELSE "pass"

IdBody(proof) ==
    IF ~ proof.exists THEN "TypeError"
    ELSE IF Truthy(proof.id) /\ ~ IsURL(proof.id.v)
         THEN "Expected URL check of the \"proof.id\" to not error."
         ELSE "pass"

CheckId(proofs) == ForEach([n \in 1..Len(proofs) |-> IdBody(proofs[n])])

TypeStringBody(proof) ==
    IF ~ proof.exists THEN "TypeError"
    ELSE PropertyString(proof.type, "expected proof to have property 'type'",
                        "Expected \"proof.type\" to be a string.")

CheckTypeString(proofs) == ForEach([n \in 1..Len(proofs) |-> TypeStringBody(proofs[n])])

\* expectedProofTypes.includes(proof.type)
HasExpectedType_exact(type, expectedProofTypes) ==
    expectedProofTypes = <<type>>

HasExpectedType(type, expectedProofTypes) ==
    \E n \in 1..Len(expectedProofTypes) : expectedProofTypes[n] = type

TypeMatchBody(proof, expectedProofTypes) ==
    IF TypeStringBody(proof) # "pass" THEN TypeStringBody(proof)
    ELSE IF ~ HasExpectedType(proof.type.v, expectedProofTypes)
         THEN "expected false to equal true"
         ELSE "pass"

CheckTypeMatch(proofs, expectedProofTypes) ==
    ForEach([n \in 1..Len(proofs) |->
               TypeMatchBody(proofs[n], expectedProofTypes)])

CryptosuiteBody(proof) ==
    IF ~ proof.exists THEN "TypeError"
    ELSE PropertyString(proof.cryptosuite,
                        "expected proof to have property 'cryptosuite'",
                        "Expected \"cryptosuite\" property to be a string.")

CheckCryptosuite(proofs) == ForEach([n \in 1..Len(proofs) |-> CryptosuiteBody(proofs[n])])

CreatedBody(proof) ==
    IF ~ proof.exists THEN "TypeError"
    ELSE IF proof.created.t = "undefined"
         THEN "expected proof to have property 'created'"
         ELSE IF ~ MatchesDateRegex(proof.created.v)
              THEN "expected created to match dateRegex"
              ELSE "pass"

CheckCreated(proofs) == ForEach([n \in 1..Len(proofs) |-> CreatedBody(proofs[n])])

VerificationMethodBody(proof) ==
    IF ~ proof.exists THEN "TypeError"
    ELSE IF proof.verificationMethod.t = "undefined"
         THEN "expected proof to have property 'verificationMethod'"
         ELSE IF ~ IsURL(proof.verificationMethod.v)
              THEN "Expected URL check of the \"verificationMethod\" to not error."
              ELSE "pass"

CheckVerificationMethod(proofs) == ForEach([n \in 1..Len(proofs) |-> VerificationMethodBody(proofs[n])])

ProofPurposeBody(proof) ==
    IF ~ proof.exists THEN "TypeError"
    ELSE PropertyString(proof.proofPurpose,
                        "expected proof to have property 'proofPurpose'",
                        "expected proofPurpose to be a string")

CheckProofPurpose(proofs) == ForEach([n \in 1..Len(proofs) |-> ProofPurposeBody(proofs[n])])

ProofValueBody(proof) ==
    IF ~ proof.exists THEN "TypeError"
    ELSE PropertyString(proof.proofValue,
                        "expected proof to have property 'proofValue'",
                        "expected proofValue to be a string")

CheckProofValue(proofs) == ForEach([n \in 1..Len(proofs) |-> ProofValueBody(proofs[n])])

\* proofs.some(proof => { const value = proof?.proofValue;
\*   return value.startsWith(multibase) && shouldBeBs58(value); })
\* from the n-th proof on: value.startsWith throws on anything but a string
RECURSIVE SomeMultibase(_, _)
SomeMultibase(proofs, n) ==
    IF n > Len(proofs)
    THEN "Expected \"proof.proofValue\" to be multibase-encoded base58-btc value."
    ELSE LET value == proofs[n].proofValue
         IN IF value.t # "string" THEN "TypeError"
            ELSE IF StartsWithZ(value.v) /\ shouldBeBs58(value.v) THEN "pass"
            ELSE SomeMultibase(proofs, n + 1)

CheckMultibase(proofs) == SomeMultibase(proofs, 1)

DomainBody(proof) ==
    IF ~ proof.exists THEN "TypeError"
    ELSE IF Truthy(proof.domain) /\ proof.domain.t # "string"
         THEN "Expected \"proof.domain\" to be a string."
         ELSE "pass"

CheckDomain(proofs) == ForEach([n \in 1..Len(proofs) |-> DomainBody(proofs[n])])

\* if(proof.challenge) { should.exist(proof.domain, ...); ... }
ChallengeBody(proof) ==
    IF ~ proof.exists THEN "TypeError"
    ELSE IF ~ Truthy(proof.challenge) THEN "pass"
    ELSE IF proof.domain.t = "undefined"
         THEN "Expected \"proof.domain\" to be specified."
         ELSE IF proof.challenge.t # "string"
              THEN "Expected \"proof.challenge\" to be a string."
              ELSE "pass"

CheckChallenge(proofs) == ForEach([n \in 1..Len(proofs) |-> ChallengeBody(proofs[n])])

PreviousProofBody(proof) ==
    IF ~ proof.exists THEN "TypeError"
    ELSE IF Truthy(proof.previousProof) /\ proof.previousProof.t # "string"
         THEN "Expected \"proof.previousProof\" to be a string."
         ELSE "pass"

CheckPreviousProof(proofs) == ForEach([n \in 1..Len(proofs) |-> PreviousProofBody(proofs[n])])

\* the it() calls of a vendor's group, in the order they are registered
Tests(expectedCryptoSuite) ==
    <<"proofExists", "id", "typeString", "typeMatch">>
    \o (IF expectedCryptoSuite THEN <<"cryptosuite">> ELSE <<>>)
    \o <<"created", "verificationMethod", "proofPurpose", "proofValue",
         "multibase", "domain", "challenge", "previousProof">>

TestNames == Range(Tests(TRUE))

RunTest(name, data, proofs, expectedProofTypes) ==
    CASE name = "proofExists" -> CheckProofExists(data)
      [] name = "id" -> CheckId(proofs)
      [] name = "typeString" -> CheckTypeString(proofs)
      [] name = "typeMatch" -> CheckTypeMatch(proofs, expectedProofTypes)
      [] name = "cryptosuite" -> CheckCryptosuite(proofs)
      [] name = "created" -> CheckCreated(proofs)
      [] name = "verificationMethod" -> CheckVerificationMethod(proofs)
      [] name = "proofPurpose" -> CheckProofPurpose(proofs)
      [] name = "proofValue" -> CheckProofValue(proofs)
      [] name = "multibase" -> CheckMultibase(proofs)
      [] name = "domain" -> CheckDomain(proofs)
      [] name = "challenge" -> CheckChallenge(proofs)
      [] name = "previousProof" -> CheckPreviousProof(proofs)

FmtIdle ==
    [pc |-> "idle", expectedProofTypes |-> <<>>, expectedCryptoSuite |-> TRUE,
     data |-> "undefined", proofs |-> <<>>,
     next |-> 0, results |-> [t \in TestNames |-> "not run"]]

\* before(): data = await createInitialVc({issuer, vc: validVc}) answers
BeforeHook ==
    /\ fmt.pc = "before"
    /\ \E data \in SampleData :
         fmt' = [fmt EXCEPT !.pc = "tests", !.data = data.kind,
                            !.proofs = ProofsOf(data), !.next = 1]
    /\ UNCHANGED <<heap, vcCache, calls, mapCount, clones, reg>>

\* before(): createInitialVc rejects; the runner skips the group's tests
BeforeHookFails ==
    /\ fmt.pc = "before"
    /\ fmt' = [fmt EXCEPT !.pc = "hookFailed"]
    /\ UNCHANGED <<heap, vcCache, calls, mapCount, clones, reg>>

\* the runner runs the next it(): a failing test does not stop the others
RunNextTest ==
    /\ fmt.pc = "tests"
    /\ LET tests == Tests(fmt.expectedCryptoSuite)
           name == tests[fmt.next]
       IN fmt' = [fmt EXCEPT
                    !.results[name] =
                        RunTest(name, fmt.data, fmt.proofs,
                                fmt.expectedProofTypes),
                    !.next = @ + 1,
                    !.pc = IF fmt.next = Len(tests) THEN "done" ELSE "tests"]
    /\ UNCHANGED <<heap, vcCache, calls, mapCount, clones, reg>>

(***************************************************************************)
(* index.js: the loop that registers one scenario group per vendor, in     *)
(* checkDataIntegrityProofFormat ("format") and                            *)
(* checkDataIntegrityProofVerifyErrors ("verify"), and the runner that     *)
(* then runs the groups.  A vendor's endpoints are "undefined" (none),     *)
(* "empty" (a list without an endpoint) or "one" (a list with one).        *)
(***************************************************************************)
EndpointKinds == {"undefined", "empty", "one"}

\* if(!endpoints) throw ..., and in "verify" if(!verifier) throw ... in the
\* describe callback: the errors thrown while the groups are registered
ThrowsAtRegistration_endpointsOnly(fn, endpoints) == endpoints = "undefined"

ThrowsAtRegistration(fn, endpoints) ==
    \/ endpoints = "undefined"
    \/ fn = "verify" /\ endpoints = "empty"

\* "format": const [issuer] = endpoints; if(!issuer) throw ... in before()
ThrowsInBefore(fn, endpoints) == fn = "format" /\ endpoints = "empty"

RegIdle ==
    [pc |-> "idle", fn |-> "-", implemented |-> <<>>, i |-> 0, group |-> <<>>]

\* one turn of for(const [vendorName, {endpoints}] of implemented): an error
\* thrown in it, or in the callback of describe(vendorName), ends the loop
\* and leaves the function
RegisterVendor ==
    /\ reg.pc = "register"
    /\ LET endpoints == reg.implemented[reg.i]
       IN IF ThrowsAtRegistration(reg.fn, endpoints)
          THEN reg' = [reg EXCEPT
                         !.pc = "thrown",
                         !.group[reg.i] =
                             IF endpoints = "undefined" THEN "none"
                             ELSE "empty"]
          ELSE reg' = [reg EXCEPT
                         !.group[reg.i] = "registered",
                         !.i = IF reg.i = Len(reg.implemented) THEN 1
                               ELSE @ + 1,
                         !.pc = IF reg.i = Len(reg.implemented) THEN "run"
                                ELSE "register"]
    /\ UNCHANGED <<heap, vcCache, calls, mapCount, clones, fmt>>

\* the runner runs the next vendor's group: its before() hook, and its tests
\* unless the hook failed (no issuer, or the vendor did not answer)
RunGroup ==
    /\ reg.pc = "run"
    /\ \E answered \in BOOLEAN :
         reg' = [reg EXCEPT
                   !.group[reg.i] =
                       IF ThrowsInBefore(reg.fn, reg.implemented[reg.i])
                       THEN "tests skipped: no issuer"
                       ELSE IF answered THEN "tests run"
                       ELSE "tests skipped: no answer",
                   !.i = IF reg.i = Len(reg.implemented) THEN @ ELSE @ + 1,
                   !.pc = IF reg.i = Len(reg.implemented) THEN "end"
                          ELSE "run"]
    /\ UNCHANGED <<heap, vcCache, calls, mapCount, clones, fmt>>

GenInit ==
    /\ heap = InitHeap
    /\ vcCache = [s \in Suites |-> Absent]
    /\ calls = [c \in 1..MaxCalls |-> IdleCall]
    /\ mapCount = [s \in Suites |-> 0]
    /\ clones = <<>>

Init ==
    /\ GenInit
    /\ fmt = FmtIdle
    /\ reg = RegIdle

\* the generation calls, every argument free, generators pure
Next ==
    \/ \E c \in 1..MaxCalls : GenerateTestData(c, AllArgs)
    \/ \E c \in 1..MaxCalls : KeyResolves(c)
    \/ \E c \in 1..MaxCalls : GeneratorResolves(c)
    \/ \E c \in 1..MaxCalls : GeneratorRejects(c)

Spec == Init /\ [][Next]_vars

\* the calls of one suite with generators that write to their credential
NextImpure ==
    \/ \E c \in 1..MaxCalls : GenerateTestData(c, ImpureArgs)
    \/ \E c \in 1..MaxCalls : GeneratorResolves(c)
    \/ \E c \in 1..MaxCalls : GeneratorRejects(c)
    \/ \E c \in 1..MaxCalls, nested \in BOOLEAN : GeneratorMutates(c, nested)

SpecImpure == Init /\ [][NextImpure]_vars

\* the calls of one suite and the consumers of the accessors they return
NextClone ==
    \/ \E c \in 1..MaxCalls : GenerateTestData(c, OneSuiteArgs)
    \/ \E c \in 1..MaxCalls : GeneratorResolves(c)
    \/ \E c \in 1..MaxCalls : GeneratorRejects(c)
    \/ \E c \in 1..MaxCalls, id \in EntryKeys : Clone(c, id)
    \/ \E n \in 1..MaxClones, nested \in BOOLEAN : MutateClone(n, nested)

SpecClone == Init /\ [][NextClone]_vars

\* one vendor's group of checkDataIntegrityProofFormat under a test runner
InitFormat ==
    /\ GenInit
    /\ reg = RegIdle
    /\ \E types \in {<<"DataIntegrityProof">>,
                      <<"Ed25519Signature2020", "DataIntegrityProof">>},
          suite \in BOOLEAN :
         fmt = [FmtIdle EXCEPT !.pc = "before", !.expectedProofTypes = types,
                               !.expectedCryptoSuite = suite]

NextFormat ==
    \/ BeforeHook
    \/ BeforeHookFails
    \/ RunNextTest

SpecFormat == InitFormat /\ [][NextFormat]_vars

\* either function called with some map of implemented vendors
InitRegister ==
    /\ GenInit
    /\ fmt = FmtIdle
    /\ \E fn \in {"format", "verify"},
          implemented \in SeqsUpTo(EndpointKinds, MaxVendors) :
         reg = [pc |-> "register", fn |-> fn, implemented |-> implemented,
                i |-> 1, group |-> [v \in DOMAIN implemented |-> "none"]]

NextRegister ==
    \/ RegisterVendor
    \/ RunGroup

SpecRegister == InitRegister /\ [][NextRegister]_vars

(***************************************************************************)
(* Properties of generateTestData.                                         *)
(***************************************************************************)
Started == {c \in 1..MaxCalls : calls[c].pc # "idle"}

\* the key a call works with once it has one
KeyOf(c) ==
    IF calls[c].keyArg = "undefined" THEN getDefaultKey ELSE calls[c].keyArg

\* the ids that the calls of suite s have stored so far
StoredIn(s) ==
    UNION {Range(calls[c].stored) : c \in {d \in Started : calls[d].suiteName = s}}

\* C1: a generator is never invoked for a (suiteName, generatorId) pair that
\* the fixture cache already holds a value for.
C1_NoReinvocation ==
    \A c \in Started : \A n \in 1..Len(calls[c].invoked) :
        ~ calls[c].invoked[n].cached

\* C2: every clone that was returned is a copy with the value the cached
\* artifact had, shares no object with any cached artifact or with another
\* clone, two clones of the same cached artifact were returned deep-equal,
\* and no cached artifact a clone was taken from has changed since.
C2_CopyOutIsolation ==
    \A n \in 1..Len(clones) :
        LET cl == clones[n]
        IN /\ cl.val = cl.srcVal
           /\ DeepVal(heap, cl.src) = cl.srcVal
           /\ \A s \in Suites, e \in EntryKeys :
                Graph(heap, cl.addr) \cap Graph(heap, vcCache[s].entries[e]) = {}
           /\ Graph(heap, cl.addr) \cap Graph(heap, cl.src) = {}
           /\ \A m \in 1..Len(clones) :
                m # n =>
                  /\ Graph(heap, cl.addr) \cap Graph(heap, clones[m].addr) = {}
                  /\ (clones[m].src = cl.src /\ m > n) => clones[m].val = cl.val

\* two clones of one cached artifact were returned, the first was mutated
\* before the second was taken
C2_Witness ==
    /\ Len(clones) >= 2
    /\ clones[1].src = clones[2].src
    /\ clones[1].src # Undefined
    /\ clones[1].id = "issuedVc"
    /\ DeepVal(heap, clones[1].addr) # clones[1].val
    /\ DeepVal(heap, clones[2].addr) = clones[2].val

\* C3: the credential templates (the default validVc and a testVector of the
\* caller) keep the structure and the values they had before any call.
C3_TemplatesUntouched ==
    \A t \in Templates :
        /\ heap[t] = InitHeap[t]
        /\ heap[Nested(t)] = InitHeap[Nested(t)]

\* a call on the caller's template resolved and one rejected, the generators
\* having written to the credentials they were handed
C3_Witness ==
    /\ \E c \in Started :
         /\ calls[c].pc = "done"
         /\ calls[c].testVector = customVector
         /\ heap[calls[c].credential].issuer = "did:generated"
    /\ \E c \in Started :
         /\ calls[c].pc = "rejected"
         /\ heap[Nested(calls[c].credential)].name = "generated"

\* C4: a call that failed at its k-th generator has invoked exactly the
\* first k generators and stored exactly the first k-1, in registry order;
\* and the cache of every suite holds exactly the seeded 'validVc' entry and
\* the entries its calls have stored: nothing is rolled back, nothing is
\* stored for a failing generator.
C4_FailureKeepsPartialCache ==
    /\ \A c \in Started :
         calls[c].pc = "rejected" =>
           LET gens == getGenerators(calls[c].optionalTests)
               k == calls[c].i
           IN /\ k \in 1..Len(gens)
              /\ [n \in 1..Len(calls[c].invoked) |-> calls[c].invoked[n].id]
                   = SubSeq(gens, 1, k)
              /\ calls[c].stored = SubSeq(gens, 1, k - 1)
              /\ vcCache[calls[c].suiteName] # Absent
    /\ \A s \in Suites :
         vcCache[s] # Absent =>
           {e \in EntryKeys : vcCache[s].entries[e] # Undefined}
             = {"validVc"} \cup StoredIn(s)

\* a call failed at its second generator after it stored the first
C4_Witness ==
    \E c \in Started :
        /\ calls[c].pc = "rejected"
        /\ calls[c].i = 2
        /\ vcCache[calls[c].suiteName].entries["issuedVc"]
             = Addr("testData", "-", c, 1)
        /\ vcCache[calls[c].suiteName].entries["invalidProofType"] = Undefined

\* C9: a call asks the default-key provider for a key exactly once when it
\* was given none and never when it was given one; it fails only at a
\* generator; every generator is handed a credential whose issuer is the
\* controller of the call's key, and so are the artifacts the call stored.
C9_DefaultKeyAndIssuer ==
    \A c \in Started :
        /\ calls[c].keyCalls = IF calls[c].keyArg = "undefined" THEN 1 ELSE 0
        /\ calls[c].pc = "rejected" => Len(calls[c].invoked) >= 1
        /\ \A n \in 1..Len(calls[c].invoked) :
             calls[c].invoked[n].issuer = Controller(KeyOf(c))
        /\ \A n \in 1..Len(calls[c].stored) :
             heap[Addr("testData", "-", c, n)].issuer = Controller(KeyOf(c))

\* a call without a key returned and a call with a key returned
C9_Witness ==
    /\ \E c \in Started :
         /\ calls[c].keyArg = "undefined"
         /\ calls[c].pc = "done"
         /\ calls[c].keyCalls = 1
         /\ heap[vcCache[calls[c].suiteName].entries["issuedVc"]].issuer
              = "did:key:default"
    /\ \E c \in Started :
         /\ calls[c].keyArg = "suppliedKey"
         /\ calls[c].pc = "done"

\* C10: the Map of a suite is built at most once and, once there, is never
\* replaced and loses no entry; a step of a call for one suite changes
\* nothing of another suite.
C10_SuiteMapsStable ==
    [][ /\ \A s \in Suites :
             /\ mapCount'[s] <= 1
             /\ vcCache[s] # Absent =>
                  /\ vcCache'[s].mapId = vcCache[s].mapId
                  /\ \A e \in EntryKeys :
                       vcCache[s].entries[e] # Undefined
                         => vcCache'[s].entries[e] # Undefined
        /\ \A c \in 1..MaxCalls : \A s \in Suites :
             (calls'[c] # calls[c] /\ s # calls'[c].suiteName)
               => vcCache'[s] = vcCache[s]
      ]_vars

\* two calls for one suite ran interleaved: one waits for its second
\* generator, the other, which had to wait for the default key, for its first
C10_Witness ==
    \E c, d \in Started :
        /\ c # d
        /\ calls[c].suiteName = calls[d].suiteName
        /\ calls[c].keyArg = "undefined"
        /\ calls[c].pc = "awaitGen"
        /\ calls[c].i = 1
        /\ calls[d].pc = "awaitGen"
        /\ calls[d].i = 2
        /\ mapCount[calls[c].suiteName] = 1

(***************************************************************************)
(* Properties of checkDataIntegrityProofFormat.                            *)
(***************************************************************************)
Registered == Range(Tests(fmt.expectedCryptoSuite))

Present(x) == x.t # "undefined"

\* C6: when a proof has a challenge (whatever its value) and no domain, the
\* challenge check does not pass, and for a document with that one proof its
\* reason is the one that names the missing domain.
C6_ChallengeRequiresDomain ==
    fmt.results["challenge"] # "not run" =>
      \A n \in 1..Len(fmt.proofs) :
        (/\ fmt.proofs[n].exists
         /\ Present(fmt.proofs[n].challenge)
         /\ ~ Present(fmt.proofs[n].domain))
          => /\ fmt.results["challenge"] # "pass"
             /\ Len(fmt.proofs) = 1 =>
                  fmt.results["challenge"]
                    = "Expected \"proof.domain\" to be specified."

\* C7: the multibase check passes exactly when some proof of the document,
\* wherever it stands and whatever the other proofs hold, has a proofValue
\* that begins with 'z' and is base58-btc.
C7_MultibaseIffSomeProof ==
    fmt.results["multibase"] # "not run" =>
      (fmt.results["multibase"] = "pass"
         <=> \E n \in 1..Len(fmt.proofs) :
               /\ fmt.proofs[n].proofValue.t = "string"
               /\ StartsWithZ(fmt.proofs[n].proofValue.v)
               /\ shouldBeBs58(fmt.proofs[n].proofValue.v))

\* every registered check of a document with the one proof p passes
PassesAll(p, expectedProofTypes, expectedCryptoSuite) ==
    \A name \in Range(Tests(expectedCryptoSuite)) :
        RunTest(name, "object", <<p>>, expectedProofTypes) = "pass"

\* C8: when the group's tests are over, every registered check has run;
\* the type-match check has passed exactly when the type of every proof is
\* a string among expectedProofTypes; and for a proof that passes every
\* check once its type is 'DataIntegrityProof', but whose type is a string
\* outside expectedProofTypes, the type-match check is the only one to fail.
C8_TypeMatchIsolated ==
    fmt.pc = "done" =>
      /\ \A name \in Registered : fmt.results[name] # "not run"
      /\ fmt.results["typeMatch"] = "pass"
           <=> \A n \in 1..Len(fmt.proofs) :
                 /\ fmt.proofs[n].type.t = "string"
                 /\ fmt.proofs[n].type.v \in Range(fmt.expectedProofTypes)
      /\ (/\ fmt.data = "object"
          /\ fmt.proofs[1].type.t = "string"
          /\ fmt.proofs[1].type.v \notin Range(fmt.expectedProofTypes)
          /\ PassesAll([fmt.proofs[1] EXCEPT !.type = Str("DataIntegrityProof")],
                       fmt.expectedProofTypes, fmt.expectedCryptoSuite))
           => \A name \in Registered :
                fmt.results[name] = "pass" <=> name # "typeMatch"

\* the valid proof with type 'Ed25519Signature2020' went through the checks
\* for ['DataIntegrityProof']: only the type-match check failed
C8_Witness ==
    /\ fmt.pc = "done"
    /\ fmt.expectedProofTypes = <<"DataIntegrityProof">>
    /\ fmt.data = "object"
    /\ fmt.proofs = <<[ValidProof EXCEPT !.type = Str("Ed25519Signature2020")]>>
    /\ fmt.results["typeMatch"] = "expected false to equal true"
    /\ fmt.results["typeString"] = "pass"
    /\ fmt.results["previousProof"] = "pass"

(***************************************************************************)
(* Properties of the registration loop.                                    *)
(***************************************************************************)
Vendors == DOMAIN reg.implemented

Over == reg.pc \in {"thrown", "end"}

\* C5 as claimed: whatever vendor is misconfigured, once the function and the
\* runner are through, the group of every vendor that has an endpoint was
\* registered, and was run if anything was.
C5_OtherVendorsRegistered ==
    Over =>
      \A v \in Vendors :
        reg.implemented[v] = "one" =>
          /\ reg.group[v] # "none"
          /\ reg.pc = "end" =>
               reg.group[v] \in {"tests run", "tests skipped: no answer"}

\* C5 amended: only a missing issuer in "format" is confined to its vendor:
\* its tests are skipped and the group of every other vendor is run.  A
\* vendor without endpoints, or in "verify" without a verifier, makes the
\* function throw: the groups of the vendors before it are registered, its
\* own has no test, and no vendor after it gets a group.
C5_ThrowEndsRegistration ==
    /\ reg.pc = "thrown" =>
         /\ \/ reg.implemented[reg.i] = "undefined"
            \/ reg.fn = "verify" /\ reg.implemented[reg.i] = "empty"
         /\ \A v \in Vendors :
              /\ v < reg.i => reg.group[v] = "registered"
              /\ v = reg.i => reg.group[v] \in {"none", "empty"}
              /\ v > reg.i => reg.group[v] = "none"
    /\ reg.pc \in {"run", "end"} =>
         \A v \in Vendors :
           /\ reg.implemented[v] # "undefined"
           /\ reg.implemented[v] = "empty" => reg.fn = "format"
           /\ reg.group[v] # "none"
    /\ reg.pc = "end" =>
         \A v \in Vendors :
           IF reg.implemented[v] = "empty"
           THEN reg.group[v] = "tests skipped: no issuer"
           ELSE reg.group[v] \in {"tests run", "tests skipped: no answer"}

\* "verify" threw at a second vendor that has no verifier, with a vendor
\* after it
C5_Witness ==
    /\ reg.pc = "thrown"
    /\ reg.fn = "verify"
    /\ reg.implemented = <<"one", "empty", "one">>
    /\ reg.group = <<"registered", "empty", "none">>

====
